---- MODULE Spec2Model ----
(***************************************************************************)
(* Grid-capture game: one Master (master.c), PlayerCount Players           *)
(* (player.c with the readers protocol, player_valid.c with state_mutex)   *)
(* and an optional View (view.c), synchronised through the semaphores of   *)
(* game_sync_t and one pipe per player.                                    *)
(***************************************************************************)
EXTENDS Integers, Sequences, FiniteSets, TLC

\* ------------------------------------------------------------------------
\* Bounds of the model
\* ------------------------------------------------------------------------
Width == 2
Height == 2
PlayerCount == 2
MaxSeed == 0
TimeoutSec == 1
MaxByte == 8
MaxWrites == 2
MaxPipe == 1
MaxOther == 1
PlaceMax == 4
ManyPlayers == 3
MaxEINTR == 1
MaxDelayMs == 2200
DelaySlack == 2

\* ------------------------------------------------------------------------
\* Program constants
\* ------------------------------------------------------------------------
MaxReward == 9
PlayerMutexInit == 1
MAX_PLAYERS == 9
DefaultDelayMs == 200
NanosPerMs == 1000000
NanosPerSec == 1000000000
INT_MAX == 2147483647

SHM_GAME_STATE == "/game_state"
SHM_GAME_SYNC == "/game_sync"
EXIT_SUCCESS == 0
EXIT_FAILURE == 1

UP == 0
UP_RIGHT == 1
RIGHT == 2
DOWN_RIGHT == 3
DOWN == 4
DOWN_LEFT == 5
LEFT == 6
UP_LEFT == 7

Directions == 0 .. 7
Kinds == {"player", "player_valid"}

\* master runs whatever executable a -p argument names: "other" is a
\* program that is neither player.c nor player_valid.c
AnyKinds == Kinds \cup {"other"}

\* pid the kernel hands to the i-th forked player (0 means "not recorded")
Pid(i) == 100 + i

\* ------------------------------------------------------------------------
\* State
\* ------------------------------------------------------------------------
VARIABLES
    board,              \* game_state->board, row-major, index y*width+x
    players,            \* game_state->players[i]
    game_over,          \* game_state->game_over
    master_to_view,     \* semaphores of game_sync_t (their values)
    view_to_master,
    master_mutex,
    state_mutex,
    reader_count_mutex,
    reader_count,
    player_mutex,
    pipe,               \* bytes written by player i and not yet read
    player_pipes,       \* player_pipes[i][PIPE_READ] != -1
    read_fds,           \* master's fd_set read_fds (as player indices)
    width,              \* game_state->width
    height,             \* game_state->height
    player_count,       \* game_state->player_count
    seed,               \* the seed given to initialize_board
    view_path,          \* view_path != NULL
    kind,               \* which executable player i runs
    delay_ms,           \* the -d option
    ts,                 \* the last call of nanosleep: its argument and result
    released,           \* master's calls of munmap, close and shm_unlink
    mpc,                \* master's position
    mi,                 \* master's loop index i
    tmp_fds,            \* fd_set returned by select
    move,               \* the byte master has just read
    elapsed,            \* seconds since last_valid_move_time, saturated
    ppc,                \* each player's position
    best_dir,           \* the direction a player.c player computed
    tokens_received,    \* completed sem_wait(player_mutex[i]) of player i
    bytes_sent,         \* successful write(2) calls of player i
    vpc,                \* view's position
    view_waits,         \* completed sem_wait(master_to_view) of the view
    m2v_posts,          \* sem_post(master_to_view) calls of master
    winner,             \* master's local winner (-1: none, "Empate")
    shm_names,          \* the shared memory names that are still linked
    exit_status,        \* master's exit status (-1 while it runs)
    exec_failed,        \* the players whose execl returned in the child
    view_exec_failed    \* execl of the view returned in the child

stateVars == <<board, players, game_over>>
syncVars == <<master_to_view, view_to_master, master_mutex, state_mutex,
              reader_count_mutex, reader_count, player_mutex>>
pipeVars == <<pipe, player_pipes, read_fds>>
cfgVars == <<width, height, player_count, seed, view_path, kind, delay_ms>>
masterVars == <<mpc, mi, tmp_fds, move, elapsed>>
playerVars == <<ppc, best_dir, tokens_received, bytes_sent>>
viewVars == <<vpc, view_waits>>
outVars == <<winner, shm_names, exit_status, exec_failed, view_exec_failed, ts,
             released>>
masterOut == <<winner, exit_status, exec_failed, view_exec_failed, ts, released>>
vars == <<stateVars, syncVars, pipeVars, cfgVars, masterVars, playerVars,
          viewVars, m2v_posts, outVars>>

\* the player indices and the board indices of the game being played
Players == 0 .. (player_count - 1)
Cells == 0 .. (width * height - 1)

\* ------------------------------------------------------------------------
\* Board set-up (master.c)
\* ------------------------------------------------------------------------
\* stand-in for the k-th value of libc's rand() after srand(seed)
Rand(s, k) == (s + 1) * (k + 3) + k * k

\* variant of initialize_board: rand() % 9 without the + 1
initialize_board_nooffset(s) == [k \in Cells |-> Rand(s, k) % MaxReward]

initialize_board(s) == [k \in Cells |-> (Rand(s, k) % MaxReward) + 1]

\* positions[i] = {row, column}
positions_transposed ==
    << <<0, 0>>,
       <<height - 1, 0>>,
       <<0, width - 1>>,
       <<height - 1, width - 1>>,
       <<height \div 2, width \div 2>>,
       <<width \div 2, 0>>,
       <<height - 1, width \div 2>>,
       <<0, height \div 2>>,
       <<height \div 2, width - 1>> >>

positions ==
    << <<0, 0>>,
       <<0, width - 1>>,
       <<height - 1, 0>>,
       <<height - 1, width - 1>>,
       <<height \div 2, width \div 2>>,
       <<0, width \div 2>>,
       <<height - 1, width \div 2>>,
       <<height \div 2, 0>>,
       <<height \div 2, width - 1>> >>

StartX(i) == positions[i + 1][2]
StartY(i) == positions[i + 1][1]

RECURSIVE PlaceBoard(_, _)
PlaceBoard(b, n) ==
    IF n = 0 THEN b
    ELSE [PlaceBoard(b, n - 1) EXCEPT
            ![StartY(n - 1) * width + StartX(n - 1)] = -n]

place_players(b) == PlaceBoard(b, player_count)

InitPlayer(i) ==
    [x |-> StartX(i), y |-> StartY(i), score |-> 0, invalid_moves |-> 0,
     valid_moves |-> 0, pid |-> 0, blocked |-> FALSE]

\* ------------------------------------------------------------------------
\* Move validation and application (master.c)
\* ------------------------------------------------------------------------
NewX(direction, x) ==
    CASE direction = UP -> x
      [] direction = UP_RIGHT -> x + 1
      [] direction = RIGHT -> x + 1
      [] direction = DOWN_RIGHT -> x + 1
      [] direction = DOWN -> x
      [] direction = DOWN_LEFT -> x - 1
      [] direction = LEFT -> x - 1
      [] direction = UP_LEFT -> x - 1
      [] OTHER -> x

NewY(direction, y) ==
    CASE direction = UP -> y - 1
      [] direction = UP_RIGHT -> y - 1
      [] direction = RIGHT -> y
      [] direction = DOWN_RIGHT -> y + 1
      [] direction = DOWN -> y + 1
      [] direction = DOWN_LEFT -> y + 1
      [] direction = LEFT -> y
      [] direction = UP_LEFT -> y - 1
      [] OTHER -> y

OutOfLimits(new_x, new_y) ==
    new_x < 0 \/ new_x >= width \/ new_y < 0 \/ new_y >= height

\* variant of CellFree: only a zero cell counts as taken
CellFree_nonzero(cell_value) == cell_value # 0

CellFree(cell_value) == ~(cell_value <= 0)

is_valid_move(player_id, direction) ==
    LET new_x == NewX(direction, players[player_id].x)
        new_y == NewY(direction, players[player_id].y)
    IN  IF OutOfLimits(new_x, new_y) THEN FALSE
        ELSE CellFree(board[new_y * width + new_x])

\* variant of apply_move_board: the cell the player leaves is given back
apply_move_board_release(player_id, direction) ==
    LET new_x == NewX(direction, players[player_id].x)
        new_y == NewY(direction, players[player_id].y)
        old == players[player_id].y * width + players[player_id].x
    IN  [board EXCEPT ![old] = 1,
                      ![new_y * width + new_x] = -(player_id + 1)]

\* variant of apply_move_board: the target cell is not marked
apply_move_board_none(player_id, direction) == board

apply_move_board(player_id, direction) ==
    LET new_x == NewX(direction, players[player_id].x)
        new_y == NewY(direction, players[player_id].y)
    IN  [board EXCEPT ![new_y * width + new_x] = -(player_id + 1)]

\* variant of apply_move_players: every capture is worth one point
apply_move_players_unit(player_id, direction) ==
    LET new_x == NewX(direction, players[player_id].x)
        new_y == NewY(direction, players[player_id].y)
    IN  [players EXCEPT ![player_id] =
            [@ EXCEPT !.score = @ + 1,
                      !.x = new_x,
                      !.y = new_y,
                      !.valid_moves = @ + 1]]

\* variant of apply_move_players: valid_moves is left alone
apply_move_players_nocount(player_id, direction) ==
    LET new_x == NewX(direction, players[player_id].x)
        new_y == NewY(direction, players[player_id].y)
        reward == board[new_y * width + new_x]
    IN  [players EXCEPT ![player_id] =
            [@ EXCEPT !.score = @ + reward,
                      !.x = new_x,
                      !.y = new_y]]

\* variant of apply_move_players: the reward is not credited
apply_move_players_noscore(player_id, direction) ==
    LET new_x == NewX(direction, players[player_id].x)
        new_y == NewY(direction, players[player_id].y)
    IN  [players EXCEPT ![player_id] =
            [@ EXCEPT !.x = new_x,
                      !.y = new_y,
                      !.valid_moves = @ + 1]]

apply_move_players(player_id, direction) ==
    LET new_x == NewX(direction, players[player_id].x)
        new_y == NewY(direction, players[player_id].y)
        reward == board[new_y * width + new_x]
    IN  [players EXCEPT ![player_id] =
            [@ EXCEPT !.score = @ + reward,
                      !.x = new_x,
                      !.y = new_y,
                      !.valid_moves = @ + 1]]

\* variant of invalid_move: the rejected byte is counted twice
invalid_move_twice(player_id) ==
    [players EXCEPT ![player_id].invalid_moves = @ + 2]

\* game_state->players[i].invalid_moves++
invalid_move(player_id) ==
    [players EXCEPT ![player_id].invalid_moves = @ + 1]

\* ------------------------------------------------------------------------
\* Move selection of player.c
\* ------------------------------------------------------------------------
dirs == << <<0, -1>>, <<1, -1>>, <<1, 0>>, <<1, 1>>,
           <<0, 1>>, <<-1, 1>>, <<-1, 0>>, <<-1, -1>> >>

NeighborIn(i, d) ==
    LET nx == players[i].x + dirs[d + 1][1]
        ny == players[i].y + dirs[d + 1][2]
    IN  ~(nx < 0 \/ nx >= width \/ ny < 0 \/ ny >= height)

NeighborCell(i, d) ==
    board[(players[i].y + dirs[d + 1][2]) * width
          + (players[i].x + dirs[d + 1][1])]

valid_dirs(i) == {d \in Directions : NeighborIn(i, d) /\ NeighborCell(i, d) >= 0}
food_dirs(i) == {d \in valid_dirs(i) : NeighborCell(i, d) > 0}
empty_dirs(i) == {d \in valid_dirs(i) : ~(NeighborCell(i, d) > 0)}

SetMin(S) == CHOOSE m \in S : \A o \in S : m <= o
SetMax(S) == CHOOSE m \in S : \A o \in S : m >= o

\* the directions rand() can make player.c pick
BestDirChoices(i) ==
    IF food_dirs(i) # {} THEN food_dirs(i)
    ELSE IF empty_dirs(i) # {} THEN empty_dirs(i)
    ELSE IF valid_dirs(i) # {} THEN valid_dirs(i)
    ELSE LET inb == {d \in Directions : NeighborIn(i, d)}
         IN  IF inb = {} THEN {0} ELSE {SetMin(inb)}

\* ------------------------------------------------------------------------
\* Move selection of player_valid.c
\* ------------------------------------------------------------------------
target_from_dir(gx, gy, d) ==
    CASE d = UP -> <<gx, gy - 1>>
      [] d = UP_RIGHT -> <<gx + 1, gy - 1>>
      [] d = RIGHT -> <<gx + 1, gy>>
      [] d = DOWN_RIGHT -> <<gx + 1, gy + 1>>
      [] d = DOWN -> <<gx, gy + 1>>
      [] d = DOWN_LEFT -> <<gx - 1, gy + 1>>
      [] d = LEFT -> <<gx - 1, gy>>
      [] d = UP_LEFT -> <<gx - 1, gy - 1>>
      [] OTHER -> <<gx, gy>>

Abs(n) == IF n < 0 THEN -n ELSE n

PvTarget(i, d) == target_from_dir(players[i].x, players[i].y, d)

PvInGrid(t) == ~(t[1] < 0 \/ t[1] >= width \/ t[2] < 0 \/ t[2] >= height)

PvValidDirs(i) ==
    {d \in Directions :
        /\ PvInGrid(PvTarget(i, d))
        /\ ~(board[PvTarget(i, d)[2] * width + PvTarget(i, d)[1]] <= 0)}

PvNearOther(i, t) ==
    \E p \in Players :
        /\ p # i
        /\ \/ (players[p].x = t[1] /\ players[p].y = t[2])
           \/ (Abs(players[p].x - t[1]) <= 1 /\ Abs(players[p].y - t[2]) <= 1)

PvPrefDirs(i) == {d \in PvValidDirs(i) : ~PvNearOther(i, PvTarget(i, d))}

PvCandidates(i) == IF PvPrefDirs(i) # {} THEN PvPrefDirs(i) ELSE PvValidDirs(i)

PvValue(i, d) == board[PvTarget(i, d)[2] * width + PvTarget(i, d)[1]]

\* bests[]: the candidates of maximal reward; rand() picks one of them
PvBests(i) ==
    {d \in PvCandidates(i) :
        PvValue(i, d) = SetMax({PvValue(i, e) : e \in PvCandidates(i)})}

\* ------------------------------------------------------------------------
\* Pipes
\* ------------------------------------------------------------------------
Alive(j) == ppc[j] \notin {"unborn", "exited"}

\* processes that still hold the write end of pipe i: the pipes are all
\* created before the first fork and master closes the write end of pipe
\* j only after forking player j, so player j inherits the write ends of
\* the pipes i >= j
PipeWriters(i) == {j \in Players : j <= i /\ Alive(j)}

Readable(i) == Len(pipe[i]) > 0 \/ PipeWriters(i) = {}

\* a long value v as <<q, r>> with v = q * NanosPerSec + r, 0 <= r < NanosPerSec
Long(v) == <<v \div NanosPerSec, v % NanosPerSec>>

\* the 64-bit product ms * 1000000
WideProduct(ms) == <<ms \div 1000, (ms % 1000) * NanosPerMs>>

\* the low 32 bits of ms * 1000000 read as a signed int, for 0 <= ms < 65536
\* (1000000 = 15 * 65536 + 16960)
WrappedProduct(ms) ==
    LET low == ms * 16960
        lo == low % 65536
        hi == (ms * 15 + low \div 65536) % 65536
    IN  IF hi < 32768 THEN hi * 65536 + lo ELSE (hi - 65536) * 65536 + lo

\* struct timespec ts = {0, delay_ms * 1000000}: the int product, converted
\* to long; a product beyond INT_MAX is a signed overflow, whose result is
\* the wrapped int or the wide product
DelayNanos(ms) ==
    IF ms <= INT_MAX \div NanosPerMs
    THEN {Long(ms * NanosPerMs)}
    ELSE {Long(WrappedProduct(ms)), WideProduct(ms)}

\* nanosleep: EINVAL (-1) unless tv_sec >= 0 and 0 <= tv_nsec <= 999999999
nanosleep(sec, nsec) == IF sec >= 0 /\ nsec[1] = 0 THEN 0 ELSE -1

\* ------------------------------------------------------------------------
\* Initial state: master has initialised game_state and the semaphores
\* ------------------------------------------------------------------------
\* ------------------------------------------------------------------------
\* The resources of master and cleanup() (master.c)
\* ------------------------------------------------------------------------
\* the descriptors master holds: the two shm descriptors and both ends of
\* every player's pipe
Descriptors ==
    {<<"shm_state_fd", 0>>, <<"shm_sync_fd", 0>>}
       \cup {<<"PIPE_READ", i>> : i \in Players}
       \cup {<<"PIPE_WRITE", i>> : i \in Players}

\* pipe(player_pipes[i]) has been called, so that player_pipes[i][PIPE_WRITE]
\* != -1: the parent's close of the write end does not reset it
PipesCreated ==
    mpc \notin {"place", "fork_view", "init_notify", "init_wait", "pipes"}

CloseCall(r, fd) == [r EXCEPT !.close[fd] = @ + 1]

\* cleanup(): game_state is never reset, so width and height are read and
\* munmap is called whenever cleanup runs
cleanup_state(r) ==
    [r EXCEPT !.stale = @ \/ (r.munmap[SHM_GAME_STATE] > 0),
              !.munmap[SHM_GAME_STATE] = @ + 1]

cleanup_sync(r) == [r EXCEPT !.munmap[SHM_GAME_SYNC] = @ + 1]

\* shm_state_fd is never reset either: close and shm_unlink
cleanup_state_fd(r) ==
    [CloseCall(r, <<"shm_state_fd", 0>>) EXCEPT
        !.shm_unlink[SHM_GAME_STATE] = @ + 1]

cleanup_sync_fd(r) ==
    [CloseCall(r, <<"shm_sync_fd", 0>>) EXCEPT
        !.shm_unlink[SHM_GAME_SYNC] = @ + 1]

\* the loop over player_pipes: every end whose variable is not -1
cleanup_pipe_ends(r) ==
    [r EXCEPT !.close =
        [fd \in Descriptors |->
            IF \/ fd[1] = "PIPE_READ" /\ player_pipes[fd[2]]
               \/ fd[1] = "PIPE_WRITE" /\ PipesCreated
            THEN r.close[fd] + 1
            ELSE r.close[fd]]]

\* one whole run of cleanup()
cleanup(r) ==
    cleanup_pipe_ends(
        cleanup_sync_fd(cleanup_state_fd(cleanup_sync(cleanup_state(r)))))

InitCommon(kinds, widths, heights, counts) ==
    /\ width \in widths
    /\ height \in heights
    /\ player_count \in counts
    /\ seed \in 0 .. MaxSeed
    /\ game_over = FALSE
    /\ master_to_view = 0
    /\ view_to_master = 0
    /\ master_mutex = 1
    /\ state_mutex = 1
    /\ reader_count_mutex = 1
    /\ reader_count = 0
    /\ player_mutex = [i \in Players |-> PlayerMutexInit]
    /\ pipe = [i \in Players |-> << >>]
    /\ player_pipes = [i \in Players |-> FALSE]
    /\ read_fds = {}
    /\ view_path \in BOOLEAN
    /\ kind \in [Players -> kinds]
    /\ mi = 0
    /\ tmp_fds = {}
    /\ move = 0
    /\ elapsed = 0
    /\ ppc = [i \in Players |-> "unborn"]
    /\ best_dir = [i \in Players |-> -1]
    /\ tokens_received = [i \in Players |-> 0]
    /\ bytes_sent = [i \in Players |-> 0]
    /\ vpc = "unborn"
    /\ view_waits = 0
    /\ m2v_posts = 0
    /\ winner = -1
    /\ shm_names = {SHM_GAME_STATE, SHM_GAME_SYNC}
    /\ exit_status = -1
    /\ exec_failed = {}
    /\ view_exec_failed = FALSE
    /\ ts = [called |-> FALSE, tv_sec |-> 0, tv_nsec |-> Long(0), ret |-> 0]
    /\ released = [munmap |-> [n \in {SHM_GAME_STATE, SHM_GAME_SYNC} |-> 0],
                   close |-> [fd \in Descriptors |-> 0],
                   shm_unlink |-> [n \in {SHM_GAME_STATE, SHM_GAME_SYNC} |-> 0],
                   stale |-> FALSE]

\* the state when main reaches the fork of the view: the players placed
InitDelay(kinds, widths, heights, counts, delays) ==
    /\ InitCommon(kinds, widths, heights, counts)
    /\ delay_ms \in delays
    /\ board = place_players(initialize_board(seed))
    /\ players = [i \in Players |-> InitPlayer(i)]
    /\ mpc = "fork_view"

\* the same with the default delay
InitOf(kinds, widths, heights, counts) ==
    InitDelay(kinds, widths, heights, counts, {DefaultDelayMs})

\* the state when main reaches the call of place_players: the rewards
\* drawn, every head still at the zero the fresh region holds
PlaceInit ==
    /\ InitCommon({"player"}, 1 .. PlaceMax, 1 .. PlaceMax, 1 .. MAX_PLAYERS)
    /\ delay_ms = DefaultDelayMs
    /\ board = initialize_board(seed)
    /\ players = [i \in Players |-> [InitPlayer(i) EXCEPT !.x = 0, !.y = 0]]
    /\ mpc = "place"

M_Place ==
    /\ mpc = "place"
    /\ board' = place_players(board)
    /\ players' = [i \in Players |->
                      [players[i] EXCEPT !.x = StartX(i), !.y = StartY(i)]]
    /\ mpc' = "fork_view"
    /\ UNCHANGED <<game_over, syncVars, pipeVars, cfgVars, outVars, mi,
                   tmp_fds, move, elapsed, playerVars, viewVars, m2v_posts>>

PlaceNext == M_Place

PlaceSpec == PlaceInit /\ [][PlaceNext]_vars

InitWith(kinds) ==
    InitOf(kinds, 1 .. Width, 1 .. Height, 1 .. PlayerCount)

Init == InitWith(Kinds)

\* the same start with any executable given as a player
AnyInit ==
    /\ InitWith(AnyKinds)
    /\ Cardinality({i \in Players : kind[i] = "other"}) <= MaxOther

\* ------------------------------------------------------------------------
\* Master (master.c, main)
\* ------------------------------------------------------------------------
\* fork + execl of the view
M_ForkView ==
    /\ mpc = "fork_view"
    /\ vpc' = IF view_path THEN "loop_top" ELSE vpc
    /\ mpc' = "init_notify"
    /\ UNCHANGED <<stateVars, syncVars, pipeVars, cfgVars, outVars, mi, tmp_fds, move,
                   elapsed, playerVars, view_waits, m2v_posts>>

\* sem_post(master_to_view) of the initial handshake
M_InitNotify ==
    /\ mpc = "init_notify"
    /\ IF view_path
       THEN /\ master_to_view' = master_to_view + 1
            /\ m2v_posts' = m2v_posts + 1
            /\ mpc' = "init_wait"
       ELSE /\ mpc' = "pipes"
            /\ UNCHANGED <<master_to_view, m2v_posts>>
    /\ UNCHANGED <<stateVars, view_to_master, master_mutex, state_mutex,
                   reader_count_mutex, reader_count, player_mutex, pipeVars,
                   cfgVars, outVars, mi, tmp_fds, move, elapsed, playerVars, viewVars>>

\* sem_wait(view_to_master) of the initial handshake
M_InitWait ==
    /\ mpc = "init_wait"
    /\ view_to_master > 0
    /\ view_to_master' = view_to_master - 1
    /\ mpc' = "pipes"
    /\ UNCHANGED <<stateVars, master_to_view, master_mutex, state_mutex,
                   reader_count_mutex, reader_count, player_mutex, pipeVars,
                   cfgVars, outVars, mi, tmp_fds, move, elapsed, playerVars, viewVars,
                   m2v_posts>>

\* pipe(player_pipes[i]) for every player
M_CreatePipes ==
    /\ mpc = "pipes"
    /\ player_pipes' = [i \in Players |-> TRUE]
    /\ mpc' = "spawn"
    /\ mi' = 0
    /\ UNCHANGED <<stateVars, syncVars, pipe, read_fds, cfgVars, outVars, tmp_fds, move,
                   elapsed, playerVars, viewVars, m2v_posts>>

\* fork + execl of player mi
M_Spawn ==
    /\ mpc = "spawn"
    /\ ppc' = [ppc EXCEPT ![mi] = "start"]
    /\ mpc' = "record_pid"
    /\ UNCHANGED <<stateVars, syncVars, pipeVars, cfgVars, outVars, mi, tmp_fds, move,
                   elapsed, best_dir, tokens_received, bytes_sent, viewVars,
                   m2v_posts>>

\* parent branch of the fork: game_state->players[i].pid = pid
M_RecordPid ==
    /\ mpc = "record_pid"
    /\ players' = [players EXCEPT ![mi].pid = Pid(mi)]
    /\ mi' = mi + 1
    /\ mpc' = IF mi + 1 < player_count THEN "spawn" ELSE "loop_init"
    /\ released' = CloseCall(released, <<"PIPE_WRITE", mi>>)
    /\ UNCHANGED <<board, game_over, syncVars, pipeVars, cfgVars, winner,
                   shm_names, exit_status, exec_failed, view_exec_failed, ts,
                   tmp_fds, move, elapsed, playerVars, viewVars, m2v_posts>>

\* FD_ZERO/FD_SET and gettimeofday(&last_valid_move_time)
M_LoopInit ==
    /\ mpc = "loop_init"
    /\ read_fds' = {i \in Players : player_pipes[i]}
    /\ elapsed' = 0
    /\ mpc' = "select"
    /\ UNCHANGED <<stateVars, syncVars, pipe, player_pipes, cfgVars, outVars, mi,
                   tmp_fds, move, playerVars, viewVars, m2v_posts>>

\* select() with its 100 ms timeout: returns the pipes readable right now
M_Select ==
    /\ mpc = "select"
    /\ ~game_over
    /\ tmp_fds' = {i \in read_fds : Readable(i)}
    /\ mi' = 0
    /\ mpc' = "process"
    /\ UNCHANGED <<stateVars, syncVars, pipeVars, cfgVars, outVars, move, elapsed,
                   playerVars, viewVars, m2v_posts>>

Selected(i) == player_pipes[i] /\ i \in tmp_fds

\* the for loop steps over a pipe that is closed or not in tmp_fds
M_Skip ==
    /\ mpc = "process"
    /\ mi < player_count
    /\ ~Selected(mi)
    /\ mi' = mi + 1
    /\ UNCHANGED <<stateVars, syncVars, pipeVars, cfgVars, outVars, mpc, tmp_fds, move,
                   elapsed, playerVars, viewVars, m2v_posts>>

\* variant of M_ReadEOF: the read that returns 0 is counted as a byte
M_ReadEOF_counted ==
    /\ mpc = "process"
    /\ mi < player_count
    /\ Selected(mi)
    /\ pipe[mi] = << >>
    /\ PipeWriters(mi) = {}
    /\ players' = [players EXCEPT ![mi].blocked = TRUE,
                                  ![mi].invalid_moves = @ + 1]
    /\ read_fds' = read_fds \ {mi}
    /\ player_pipes' = [player_pipes EXCEPT ![mi] = FALSE]
    /\ mi' = mi + 1
    /\ UNCHANGED <<board, game_over, syncVars, pipe, cfgVars, outVars, mpc, tmp_fds,
                   move, elapsed, playerVars, viewVars, m2v_posts>>

\* variant of M_ReadEOF: a ready token is posted for the departed player
M_ReadEOF_post ==
    /\ mpc = "process"
    /\ mi < player_count
    /\ Selected(mi)
    /\ pipe[mi] = << >>
    /\ PipeWriters(mi) = {}
    /\ players' = [players EXCEPT ![mi].blocked = TRUE]
    /\ read_fds' = read_fds \ {mi}
    /\ player_pipes' = [player_pipes EXCEPT ![mi] = FALSE]
    /\ player_mutex' = [player_mutex EXCEPT ![mi] = @ + 1]
    /\ mi' = mi + 1
    /\ UNCHANGED <<board, game_over, master_to_view, view_to_master,
                   master_mutex, state_mutex, reader_count_mutex,
                   reader_count, pipe, cfgVars, outVars, mpc, tmp_fds, move, elapsed,
                   playerVars, viewVars, m2v_posts>>

\* variant of M_ReadEOF: the flags of the other players are cleared
M_ReadEOF_only ==
    /\ mpc = "process"
    /\ mi < player_count
    /\ Selected(mi)
    /\ pipe[mi] = << >>
    /\ PipeWriters(mi) = {}
    /\ players' = [j \in Players |-> [players[j] EXCEPT !.blocked = (j = mi)]]
    /\ read_fds' = read_fds \ {mi}
    /\ player_pipes' = [player_pipes EXCEPT ![mi] = FALSE]
    /\ mi' = mi + 1
    /\ UNCHANGED <<board, game_over, syncVars, pipe, cfgVars, outVars, mpc, tmp_fds,
                   move, elapsed, playerVars, viewVars, m2v_posts>>

\* variant of M_ReadEOF: the player is marked and its pipe kept
M_ReadEOF_open ==
    /\ mpc = "process"
    /\ mi < player_count
    /\ Selected(mi)
    /\ pipe[mi] = << >>
    /\ PipeWriters(mi) = {}
    /\ players' = [players EXCEPT ![mi].blocked = TRUE]
    /\ mi' = mi + 1
    /\ UNCHANGED <<board, game_over, syncVars, pipeVars, cfgVars, outVars, mpc,
                   tmp_fds, move, elapsed, playerVars, viewVars, m2v_posts>>

\* read() returns 0
M_ReadEOF ==
    /\ mpc = "process"
    /\ mi < player_count
    /\ Selected(mi)
    /\ pipe[mi] = << >>
    /\ PipeWriters(mi) = {}
    /\ players' = [players EXCEPT ![mi].blocked = TRUE]
    /\ read_fds' = read_fds \ {mi}
    /\ player_pipes' = [player_pipes EXCEPT ![mi] = FALSE]
    /\ released' = CloseCall(released, <<"PIPE_READ", mi>>)
    /\ mi' = mi + 1
    /\ UNCHANGED <<board, game_over, syncVars, pipe, cfgVars, winner, shm_names,
                   exit_status, exec_failed, view_exec_failed, ts, mpc, tmp_fds,
                   move, elapsed, playerVars, viewVars, m2v_posts>>

\* read() returns 1
M_ReadByte ==
    /\ mpc = "process"
    /\ mi < player_count
    /\ Selected(mi)
    /\ pipe[mi] # << >>
    /\ move' = Head(pipe[mi])
    /\ pipe' = [pipe EXCEPT ![mi] = Tail(@)]
    /\ mpc' = "wait_state"
    /\ UNCHANGED <<stateVars, syncVars, player_pipes, read_fds, cfgVars, outVars, mi,
                   tmp_fds, elapsed, playerVars, viewVars, m2v_posts>>

\* sem_wait(state_mutex)
M_WaitState ==
    /\ mpc = "wait_state"
    /\ state_mutex > 0
    /\ state_mutex' = state_mutex - 1
    /\ mpc' = "writer"
    /\ UNCHANGED <<stateVars, master_to_view, view_to_master, master_mutex,
                   reader_count_mutex, reader_count, player_mutex, pipeVars,
                   cfgVars, outVars, mi, tmp_fds, move, elapsed, playerVars, viewVars,
                   m2v_posts>>

\* the move is accepted: move <= 7 and is_valid_move
Accepted(i, m) == ~(m > 7) /\ is_valid_move(i, m)

\* gettimeofday(&last_valid_move_time) after an accepted move, nothing else
ElapsedAfter(accepted, e) == IF accepted THEN 0 ELSE e

\* the body of the writer section, then sem_post(state_mutex)
M_ProcessMove ==
    /\ mpc = "writer"
    /\ IF Accepted(mi, move)
       THEN /\ board' = apply_move_board(mi, move)
            /\ players' = apply_move_players(mi, move)
       ELSE /\ players' = invalid_move(mi)
            /\ UNCHANGED board
    /\ elapsed' = ElapsedAfter(Accepted(mi, move), elapsed)
    /\ state_mutex' = state_mutex + 1
    /\ mpc' = "notify"
    /\ UNCHANGED <<game_over, master_to_view, view_to_master, master_mutex,
                   reader_count_mutex, reader_count, player_mutex, pipeVars,
                   cfgVars, outVars, mi, tmp_fds, move, playerVars, viewVars, m2v_posts>>

\* variant of M_Notify: the view is not told about a processed byte
M_Notify_skip ==
    /\ mpc = "notify"
    /\ mpc' = "sleep"
    /\ UNCHANGED <<stateVars, syncVars, pipeVars, cfgVars, outVars, mi, tmp_fds, move,
                   elapsed, playerVars, viewVars, m2v_posts>>

\* sem_post(master_to_view) after a processed byte
M_Notify ==
    /\ mpc = "notify"
    /\ IF view_path
       THEN /\ master_to_view' = master_to_view + 1
            /\ m2v_posts' = m2v_posts + 1
            /\ mpc' = "notify_wait"
       ELSE /\ mpc' = "sleep"
            /\ UNCHANGED <<master_to_view, m2v_posts>>
    /\ UNCHANGED <<stateVars, view_to_master, master_mutex, state_mutex,
                   reader_count_mutex, reader_count, player_mutex, pipeVars,
                   cfgVars, outVars, mi, tmp_fds, move, elapsed, playerVars, viewVars>>

\* variant of M_NotifyWait: master goes on without the acknowledgment
M_NotifyWait_nowait ==
    /\ mpc = "notify_wait"
    /\ mpc' = "sleep"
    /\ UNCHANGED <<stateVars, syncVars, pipeVars, cfgVars, outVars, mi, tmp_fds, move,
                   elapsed, playerVars, viewVars, m2v_posts>>

\* sem_wait(view_to_master) after a processed byte
M_NotifyWait ==
    /\ mpc = "notify_wait"
    /\ view_to_master > 0
    /\ view_to_master' = view_to_master - 1
    /\ mpc' = "sleep"
    /\ UNCHANGED <<stateVars, master_to_view, master_mutex, state_mutex,
                   reader_count_mutex, reader_count, player_mutex, pipeVars,
                   cfgVars, outVars, mi, tmp_fds, move, elapsed, playerVars, viewVars,
                   m2v_posts>>

\* variant of M_Sleep: after the sleep the player gets a new ready token
M_Sleep_post ==
    /\ mpc = "sleep"
    /\ \E nsec \in DelayNanos(delay_ms) :
          ts' = [called |-> TRUE, tv_sec |-> 0, tv_nsec |-> nsec,
                 ret |-> nanosleep(0, nsec)]
    /\ player_mutex' = [player_mutex EXCEPT ![mi] = @ + 1]
    /\ mi' = mi + 1
    /\ move' = 0
    /\ mpc' = "process"
    /\ UNCHANGED <<stateVars, master_to_view, view_to_master, master_mutex,
                   state_mutex, reader_count_mutex, reader_count, pipeVars,
                   cfgVars, winner, shm_names, exit_status, exec_failed,
                   view_exec_failed, released, tmp_fds, elapsed, playerVars,
                   viewVars, m2v_posts>>

\* nanosleep(delay_ms), then the for loop goes on with the next player
\* (the block-local move goes out of scope)
M_Sleep ==
    /\ mpc = "sleep"
    /\ \E nsec \in DelayNanos(delay_ms) :
          ts' = [called |-> TRUE, tv_sec |-> 0, tv_nsec |-> nsec,
                 ret |-> nanosleep(0, nsec)]
    /\ mi' = mi + 1
    /\ move' = 0
    /\ mpc' = "process"
    /\ UNCHANGED <<stateVars, syncVars, pipeVars, cfgVars, winner, shm_names,
                   exit_status, exec_failed, view_exec_failed, released,
                   tmp_fds, elapsed, playerVars, viewVars, m2v_posts>>

\* variant of TimedOut: strict comparison
TimedOut_strict(e) == e > TimeoutSec

TimedOut(e) == e >= TimeoutSec

\* variant of all_blocked: one blocked player is enough
all_blocked_some == \E i \in Players : players[i].blocked

all_blocked == \A i \in Players : players[i].blocked

\* the conditions under which the end of an iteration sets game_over
EndsGame == TimedOut(elapsed) \/ all_blocked

\* end of an iteration: the timeout test, then the all_blocked test
\* (tmp_fds, local to the loop body, goes out of scope)
M_Check ==
    /\ mpc = "process"
    /\ mi = player_count
    /\ IF EndsGame
       THEN /\ game_over' = TRUE
            /\ mpc' = "final_notify"
       ELSE /\ mpc' = "select"
            /\ UNCHANGED game_over
    /\ tmp_fds' = {}
    /\ UNCHANGED <<board, players, syncVars, pipeVars, cfgVars, outVars, mi, move,
                   elapsed, playerVars, viewVars, m2v_posts>>

\* sem_post(master_to_view) of the final handshake
M_FinalNotify ==
    /\ mpc = "final_notify"
    /\ IF view_path
       THEN /\ master_to_view' = master_to_view + 1
            /\ m2v_posts' = m2v_posts + 1
            /\ mpc' = "final_wait"
            /\ UNCHANGED mi
       ELSE /\ mpc' = "reap"
            /\ mi' = 0
            /\ UNCHANGED <<master_to_view, m2v_posts>>
    /\ UNCHANGED <<stateVars, view_to_master, master_mutex, state_mutex,
                   reader_count_mutex, reader_count, player_mutex, pipeVars,
                   cfgVars, outVars, tmp_fds, move, elapsed, playerVars, viewVars>>

\* sem_wait(view_to_master) of the final handshake
M_FinalWait ==
    /\ mpc = "final_wait"
    /\ view_to_master > 0
    /\ view_to_master' = view_to_master - 1
    /\ mpc' = "reap"
    /\ mi' = 0
    /\ UNCHANGED <<stateVars, master_to_view, master_mutex, state_mutex,
                   reader_count_mutex, reader_count, player_mutex, pipeVars,
                   cfgVars, outVars, tmp_fds, move, elapsed, playerVars, viewVars,
                   m2v_posts>>

\* waitpid(players[i].pid): returns once player mi has exited
M_Reap ==
    /\ mpc = "reap"
    /\ mi < player_count
    /\ ppc[mi] = "exited"
    /\ mi' = mi + 1
    /\ UNCHANGED <<stateVars, syncVars, pipeVars, cfgVars, outVars, mpc, tmp_fds, move,
                   elapsed, playerVars, viewVars, m2v_posts>>

\* the ranking loop: the local variables before the first iteration
RankInit ==
    [winner |-> -1, max_score |-> 0, min_valid_moves |-> 99999,
     min_invalid_moves |-> 99999]

\* one iteration of the ranking loop, for player i
RankStep(r, i) ==
    IF players[i].score > r.max_score
    THEN [winner |-> i,
          max_score |-> players[i].score,
          min_valid_moves |-> players[i].valid_moves,
          min_invalid_moves |-> players[i].invalid_moves]
    ELSE IF players[i].score = r.max_score
    THEN IF players[i].valid_moves < r.min_valid_moves
         THEN [r EXCEPT !.winner = i,
                        !.min_valid_moves = players[i].valid_moves,
                        !.min_invalid_moves = players[i].invalid_moves]
         ELSE IF players[i].valid_moves = r.min_valid_moves
         THEN IF players[i].invalid_moves < r.min_invalid_moves
              THEN [r EXCEPT !.winner = i,
                             !.min_invalid_moves = players[i].invalid_moves]
              ELSE r
         ELSE r
    ELSE r

RECURSIVE RankLoop(_)
RankLoop(n) == IF n = 0 THEN RankInit ELSE RankStep(RankLoop(n - 1), n - 1)

\* shm_manager_destroy: unmap, unlink the name, close
shm_manager_destroy(names, name) == names \ {name}

\* variant of shm_manager_close: the name is unlinked as well
shm_manager_close_unlink(names, name) == names \ {name}

\* shm_manager_close: unmap and close; the name stays
shm_manager_close(names, name) == names

\* the end of a player's main: shm_manager_close of both regions
PlayerCleanup(names) ==
    shm_manager_close(shm_manager_close(names, SHM_GAME_STATE), SHM_GAME_SYNC)

\* the end of the view's main: munmap and close of both regions
ViewCleanup(names) == names

\* variant of cleanup_shm: only /game_state is unlinked
cleanup_shm_state_only == {SHM_GAME_SYNC}

\* the names cleanup() leaves linked: both descriptors are open, so both
\* names are unlinked
cleanup_shm == {}

\* the read ends cleanup() leaves open
cleanup_pipes == [i \in Players |-> FALSE]

\* waitpid(view_pid), the ranking, cleanup() and return 0
M_ReapView ==
    /\ mpc = "reap"
    /\ mi = player_count
    /\ view_path => vpc = "exited"
    /\ winner' = RankLoop(player_count).winner
    /\ released' = cleanup(released)
    /\ shm_names' = cleanup_shm
    /\ player_pipes' = cleanup_pipes
    /\ exit_status' = EXIT_SUCCESS
    /\ mpc' = "done"
    /\ UNCHANGED <<exec_failed, view_exec_failed, ts, stateVars, syncVars, pipe,
                   read_fds, cfgVars, mi, tmp_fds,
                   move, elapsed, playerVars, viewVars, m2v_posts>>

\* waitpid(view_pid) and the ranking, up to the call of cleanup()
M_Ranking ==
    /\ mpc = "reap"
    /\ mi = player_count
    /\ view_path => vpc = "exited"
    /\ winner' = RankLoop(player_count).winner
    /\ mpc' = "cleanup_state"
    /\ UNCHANGED <<shm_names, exit_status, exec_failed, view_exec_failed, ts,
                   released, stateVars, syncVars, pipeVars, cfgVars, mi,
                   tmp_fds, move, elapsed, playerVars, viewVars, m2v_posts>>

\* the statements of cleanup() run from main, one resource at a time;
\* close() does not assign -1, so player_pipes keeps its values until
\* master returns
M_CleanupState ==
    /\ mpc = "cleanup_state"
    /\ released' = cleanup_state(released)
    /\ shm_names' = shm_names
    /\ mpc' = "cleanup_sync"
    /\ UNCHANGED <<winner, exit_status, exec_failed, view_exec_failed, ts,
                   stateVars, syncVars, pipeVars, cfgVars, mi, tmp_fds, move,
                   elapsed, playerVars, viewVars, m2v_posts>>

M_CleanupSync ==
    /\ mpc = "cleanup_sync"
    /\ released' = cleanup_sync(released)
    /\ shm_names' = shm_names
    /\ mpc' = "cleanup_state_fd"
    /\ UNCHANGED <<winner, exit_status, exec_failed, view_exec_failed, ts,
                   stateVars, syncVars, pipeVars, cfgVars, mi, tmp_fds, move,
                   elapsed, playerVars, viewVars, m2v_posts>>

M_CleanupStateFd ==
    /\ mpc = "cleanup_state_fd"
    /\ released' = cleanup_state_fd(released)
    /\ shm_names' = shm_names \ {SHM_GAME_STATE}
    /\ mpc' = "cleanup_sync_fd"
    /\ UNCHANGED <<winner, exit_status, exec_failed, view_exec_failed, ts,
                   stateVars, syncVars, pipeVars, cfgVars, mi, tmp_fds, move,
                   elapsed, playerVars, viewVars, m2v_posts>>

M_CleanupSyncFd ==
    /\ mpc = "cleanup_sync_fd"
    /\ released' = cleanup_sync_fd(released)
    /\ shm_names' = shm_names \ {SHM_GAME_SYNC}
    /\ mpc' = "cleanup_pipes"
    /\ UNCHANGED <<winner, exit_status, exec_failed, view_exec_failed, ts,
                   stateVars, syncVars, pipeVars, cfgVars, mi, tmp_fds, move,
                   elapsed, playerVars, viewVars, m2v_posts>>

\* the loop over the pipes, and return 0
M_CleanupPipes ==
    /\ mpc = "cleanup_pipes"
    /\ released' = cleanup_pipe_ends(released)
    /\ player_pipes' = cleanup_pipes
    /\ exit_status' = EXIT_SUCCESS
    /\ mpc' = "done"
    /\ UNCHANGED <<winner, shm_names, exec_failed, view_exec_failed, ts,
                   stateVars, syncVars, pipe, read_fds, cfgVars, mi, tmp_fds,
                   move, elapsed, playerVars, viewVars, m2v_posts>>

\* one more second has passed when master reads the clock at the end of
\* an iteration (gettimeofday(&current_time) is the only place where the
\* time since the last valid move is looked at)
Tick ==
    /\ mpc = "process"
    /\ mi = player_count
    /\ elapsed < TimeoutSec
    /\ elapsed' = elapsed + 1
    /\ UNCHANGED <<stateVars, syncVars, pipeVars, cfgVars, outVars, mpc, mi, tmp_fds,
                   move, playerVars, viewVars, m2v_posts>>

\* ------------------------------------------------------------------------
\* Failures of the environment: signals, fork and execl
\* ------------------------------------------------------------------------
\* signal_handler: cleanup(); exit(EXIT_FAILURE), at any point of main
M_Signal ==
    /\ mpc \notin {"done", "sig_exit", "fork_exit", "sig_fault"}
    /\ released' = cleanup(released)
    /\ shm_names' = cleanup_shm
    /\ player_pipes' = cleanup_pipes
    /\ exit_status' = EXIT_FAILURE
    /\ mpc' = "sig_exit"
    /\ UNCHANGED <<stateVars, syncVars, pipe, read_fds, cfgVars, winner,
                   exec_failed, view_exec_failed, ts, mi, tmp_fds, move,
                   elapsed,
                   playerVars, viewVars, m2v_posts>>

\* SIGINT or SIGTERM while cleanup() has already unmapped the state
\* region: the handler's cleanup() reads game_state->width there and
\* master is killed by the fault
M_SignalFault ==
    /\ mpc \notin {"done", "sig_exit", "fork_exit", "sig_fault"}
    /\ released.munmap[SHM_GAME_STATE] > 0
    /\ released' = [released EXCEPT !.stale = TRUE]
    /\ mpc' = "sig_fault"
    /\ UNCHANGED <<stateVars, syncVars, pipeVars, cfgVars, winner, shm_names,
                   exit_status, exec_failed, view_exec_failed, ts, mi,
                   tmp_fds, move, elapsed, playerVars, viewVars, m2v_posts>>

\* fork() of the view returns -1: perror, cleanup(), exit(EXIT_FAILURE)
M_ForkViewFail ==
    /\ mpc = "fork_view"
    /\ view_path
    /\ released' = cleanup(released)
    /\ shm_names' = cleanup_shm
    /\ player_pipes' = cleanup_pipes
    /\ exit_status' = EXIT_FAILURE
    /\ mpc' = "fork_exit"
    /\ UNCHANGED <<stateVars, syncVars, pipe, read_fds, cfgVars, winner,
                   exec_failed, view_exec_failed, ts, mi, tmp_fds, move,
                   elapsed,
                   playerVars, viewVars, m2v_posts>>

\* fork() of the view succeeds and execl returns in the child: perror and
\* exit(EXIT_FAILURE) there, the parent goes on
M_ForkViewExecFail ==
    /\ mpc = "fork_view"
    /\ view_path
    /\ vpc' = "exited"
    /\ view_exec_failed' = TRUE
    /\ mpc' = "init_notify"
    /\ UNCHANGED <<stateVars, syncVars, pipeVars, cfgVars, winner, shm_names,
                   exit_status, exec_failed, ts, released, mi, tmp_fds, move,
                   elapsed,
                   playerVars, view_waits, m2v_posts>>

\* fork() of player mi returns -1: perror, cleanup(), exit(EXIT_FAILURE)
M_SpawnFail ==
    /\ mpc = "spawn"
    /\ released' = cleanup(released)
    /\ shm_names' = cleanup_shm
    /\ player_pipes' = cleanup_pipes
    /\ exit_status' = EXIT_FAILURE
    /\ mpc' = "fork_exit"
    /\ UNCHANGED <<stateVars, syncVars, pipe, read_fds, cfgVars, winner,
                   exec_failed, view_exec_failed, ts, mi, tmp_fds, move,
                   elapsed,
                   playerVars, viewVars, m2v_posts>>

\* fork() of player mi succeeds and execl returns in the child: perror and
\* exit(EXIT_FAILURE) there, the parent goes on to record the pid
M_SpawnExecFail ==
    /\ mpc = "spawn"
    /\ ppc' = [ppc EXCEPT ![mi] = "exited"]
    /\ exec_failed' = exec_failed \cup {mi}
    /\ mpc' = "record_pid"
    /\ UNCHANGED <<stateVars, syncVars, pipeVars, cfgVars, winner, shm_names,
                   exit_status, view_exec_failed, ts, released, mi, tmp_fds, move,
                   elapsed,
                   best_dir, tokens_received, bytes_sent, viewVars, m2v_posts>>

\* read() on the selected pipe of player mi returns -1
M_ReadError ==
    /\ mpc = "process"
    /\ mi < player_count
    /\ Selected(mi)
    /\ mpc' = "read_error"
    /\ UNCHANGED <<stateVars, syncVars, pipeVars, cfgVars, outVars, mi, tmp_fds,
                   move, elapsed, playerVars, viewVars, m2v_posts>>

\* bytes_read is neither 0 nor 1: no branch of the if is taken and the for
\* loop goes on with the next player
M_ReadErrorDone ==
    /\ mpc = "read_error"
    /\ mi' = mi + 1
    /\ mpc' = "process"
    /\ UNCHANGED <<stateVars, syncVars, pipeVars, cfgVars, outVars, tmp_fds,
                   move, elapsed, playerVars, viewVars, m2v_posts>>

\* select() is interrupted: it returns -1 with errno EINTR
M_SelectEINTR ==
    /\ mpc = "select"
    /\ ~game_over
    /\ mpc' = "select_eintr"
    /\ UNCHANGED <<stateVars, syncVars, pipeVars, cfgVars, outVars, mi, tmp_fds,
                   move, elapsed, playerVars, viewVars, m2v_posts>>

\* if (ready == -1) { perror("select"); break; }
M_SelectBreak ==
    /\ mpc = "select_eintr"
    /\ tmp_fds' = {}
    /\ mpc' = "final_notify"
    /\ UNCHANGED <<stateVars, syncVars, pipeVars, cfgVars, outVars, mi, move,
                   elapsed, playerVars, viewVars, m2v_posts>>

FaultNext ==
    \/ M_Signal \/ M_ForkViewFail \/ M_ForkViewExecFail
    \/ M_SpawnFail \/ M_SpawnExecFail
    \/ M_ReadError \/ M_ReadErrorDone
    \/ M_SelectEINTR \/ M_SelectBreak

MasterNext ==
    \/ M_ForkView \/ M_InitNotify \/ M_InitWait \/ M_CreatePipes
    \/ M_Spawn \/ M_RecordPid \/ M_LoopInit \/ M_Select \/ M_Skip
    \/ M_ReadEOF \/ M_ReadByte \/ M_WaitState \/ M_ProcessMove
    \/ M_Notify \/ M_NotifyWait \/ M_Sleep \/ M_Check
    \/ M_FinalNotify \/ M_FinalWait \/ M_Reap \/ M_ReapView

\* ------------------------------------------------------------------------
\* Player running player.c
\* ------------------------------------------------------------------------
\* the slot search: scan players[].pid, leave if the game is already over
P_FindSlot(i) ==
    /\ kind[i] = "player"
    /\ ppc[i] = "start"
    /\ ppc' = [ppc EXCEPT ![i] =
                 IF players[i].pid = Pid(i) THEN "loop_top"
                 ELSE IF game_over THEN "exited" ELSE @]
    /\ UNCHANGED <<stateVars, syncVars, pipeVars, cfgVars, masterOut, masterVars,
                   best_dir, tokens_received, bytes_sent, viewVars, m2v_posts>>
    /\ shm_names' = IF ppc'[i] = "exited" THEN PlayerCleanup(shm_names)
                    ELSE shm_names

\* while (!game_state->game_over && !stop)
P_LoopTop(i) ==
    /\ kind[i] = "player"
    /\ ppc[i] = "loop_top"
    /\ ppc' = [ppc EXCEPT ![i] = IF game_over THEN "exited" ELSE "wait_token"]
    /\ UNCHANGED <<stateVars, syncVars, pipeVars, cfgVars, masterOut, masterVars,
                   best_dir, tokens_received, bytes_sent, viewVars, m2v_posts>>
    /\ shm_names' = IF ppc'[i] = "exited" THEN PlayerCleanup(shm_names)
                    ELSE shm_names

\* sem_wait(my_wake), then if (game_over) break
P_WaitToken(i) ==
    /\ kind[i] = "player"
    /\ ppc[i] = "wait_token"
    /\ player_mutex[i] > 0
    /\ player_mutex' = [player_mutex EXCEPT ![i] = @ - 1]
    /\ tokens_received' = [tokens_received EXCEPT ![i] = @ + 1]
    /\ ppc' = [ppc EXCEPT ![i] = IF game_over THEN "exited" ELSE "gate"]
    /\ UNCHANGED <<stateVars, master_to_view, view_to_master, master_mutex,
                   state_mutex, reader_count_mutex, reader_count, pipeVars,
                   cfgVars, masterOut, masterVars, best_dir, bytes_sent, viewVars,
                   m2v_posts>>
    /\ shm_names' = IF ppc'[i] = "exited" THEN PlayerCleanup(shm_names)
                    ELSE shm_names

\* sem_wait(master_mutex); sem_post(master_mutex)
P_Gate(i) ==
    /\ kind[i] = "player"
    /\ ppc[i] = "gate"
    /\ master_mutex > 0
    /\ ppc' = [ppc EXCEPT ![i] = "reader_entry"]
    /\ UNCHANGED <<stateVars, syncVars, pipeVars, cfgVars, outVars, masterVars,
                   best_dir, tokens_received, bytes_sent, viewVars, m2v_posts>>

\* variant of FirstReader: reader_count compared before the increment
FirstReader_before(rc) == rc = 0

\* the first reader has to take state_mutex
FirstReader(rc) == rc = 1

\* sem_wait(reader_count_mutex); reader_count++; a reader that is not the
\* first one posts reader_count_mutex at once
P_ReaderEntry(i) ==
    /\ kind[i] = "player"
    /\ ppc[i] = "reader_entry"
    /\ reader_count_mutex > 0
    /\ reader_count' = reader_count + 1
    /\ IF FirstReader(reader_count + 1)
       THEN /\ reader_count_mutex' = reader_count_mutex - 1
            /\ ppc' = [ppc EXCEPT ![i] = "first_reader"]
       ELSE /\ UNCHANGED reader_count_mutex
            /\ ppc' = [ppc EXCEPT ![i] = "reading"]
    /\ UNCHANGED <<stateVars, master_to_view, view_to_master, master_mutex,
                   state_mutex, player_mutex, pipeVars, cfgVars, outVars, masterVars,
                   best_dir, tokens_received, bytes_sent, viewVars, m2v_posts>>

\* the first reader: sem_wait(state_mutex); sem_post(reader_count_mutex)
P_FirstReader(i) ==
    /\ kind[i] = "player"
    /\ ppc[i] = "first_reader"
    /\ state_mutex > 0
    /\ state_mutex' = state_mutex - 1
    /\ reader_count_mutex' = reader_count_mutex + 1
    /\ ppc' = [ppc EXCEPT ![i] = "reading"]
    /\ UNCHANGED <<stateVars, master_to_view, view_to_master, master_mutex,
                   reader_count, player_mutex, pipeVars, cfgVars, outVars, masterVars,
                   best_dir, tokens_received, bytes_sent, viewVars, m2v_posts>>

\* variant of LastReader: every leaving reader posts state_mutex
LastReader_always(rc) == TRUE

\* the last reader has to release state_mutex
LastReader(rc) == rc = 0

\* snapshot, choice of best_dir, then the reader exit
P_ReadAndExit(i) ==
    /\ kind[i] = "player"
    /\ ppc[i] = "reading"
    /\ reader_count_mutex > 0
    /\ \E d \in BestDirChoices(i) : best_dir' = [best_dir EXCEPT ![i] = d]
    /\ reader_count' = reader_count - 1
    /\ state_mutex' = IF LastReader(reader_count - 1) THEN state_mutex + 1
                      ELSE state_mutex
    /\ ppc' = [ppc EXCEPT ![i] = "write"]
    /\ UNCHANGED <<stateVars, master_to_view, view_to_master, master_mutex,
                   reader_count_mutex, player_mutex, pipeVars, cfgVars, outVars,
                   masterVars, tokens_received, bytes_sent, viewVars,
                   m2v_posts>>

\* variant of PipeAfterWrite: the byte goes out twice
PipeAfterWrite_twice(q, b) == Append(Append(q, b), b)

\* what one write(STDOUT_FILENO, &out_byte, 1) leaves in the pipe
PipeAfterWrite(q, b) == Append(q, b)

\* write of the byte (EPIPE when master has closed the read end), then
\* short_sleep and back to the loop test (best_dir is local to the body)
P_Write(i) ==
    /\ kind[i] = "player"
    /\ ppc[i] = "write"
    /\ IF player_pipes[i]
       THEN /\ pipe' = [pipe EXCEPT ![i] = PipeAfterWrite(@, best_dir[i])]
            /\ bytes_sent' = [bytes_sent EXCEPT ![i] = @ + 1]
            /\ ppc' = [ppc EXCEPT ![i] = "loop_top"]
       ELSE /\ ppc' = [ppc EXCEPT ![i] = "exited"]
            /\ UNCHANGED <<pipe, bytes_sent>>
    /\ best_dir' = [best_dir EXCEPT ![i] = -1]
    /\ UNCHANGED <<stateVars, syncVars, player_pipes, read_fds, cfgVars, masterOut,
                   masterVars, tokens_received, viewVars, m2v_posts>>
    /\ shm_names' = IF ppc'[i] = "exited" THEN PlayerCleanup(shm_names)
                    ELSE shm_names

\* ------------------------------------------------------------------------
\* Player running player_valid.c
\* ------------------------------------------------------------------------
\* find_my_index: sem_wait(state_mutex)
PV_FindLock(i) ==
    /\ kind[i] = "player_valid"
    /\ ppc[i] = "start"
    /\ state_mutex > 0
    /\ state_mutex' = state_mutex - 1
    /\ ppc' = [ppc EXCEPT ![i] = "find_scan"]
    /\ UNCHANGED <<stateVars, master_to_view, view_to_master, master_mutex,
                   reader_count_mutex, reader_count, player_mutex, pipeVars,
                   cfgVars, outVars, masterVars, best_dir, tokens_received, bytes_sent,
                   viewVars, m2v_posts>>

\* find_my_index: the scan and sem_post(state_mutex); when the pid is not
\* there yet the player tries again, or this was its last attempt
\* (game_over seen or max_iters reached) and it returns EXIT_FAILURE
PV_FindScan(i) ==
    /\ kind[i] = "player_valid"
    /\ ppc[i] = "find_scan"
    /\ state_mutex' = state_mutex + 1
    /\ IF players[i].pid = Pid(i)
       THEN ppc' = [ppc EXCEPT ![i] = "wait_token"]
       ELSE \E last \in BOOLEAN :
               ppc' = [ppc EXCEPT ![i] = IF last THEN "exited" ELSE "start"]
    /\ UNCHANGED <<stateVars, master_to_view, view_to_master, master_mutex,
                   reader_count_mutex, reader_count, player_mutex, pipeVars,
                   cfgVars, masterOut, masterVars, best_dir, tokens_received, bytes_sent,
                   viewVars, m2v_posts>>
    /\ shm_names' = IF ppc'[i] = "exited" THEN PlayerCleanup(shm_names)
                    ELSE shm_names

\* sem_wait(player_mutex[my_index]), then the game_over and blocked tests
PV_WaitToken(i) ==
    /\ kind[i] = "player_valid"
    /\ ppc[i] = "wait_token"
    /\ player_mutex[i] > 0
    /\ player_mutex' = [player_mutex EXCEPT ![i] = @ - 1]
    /\ tokens_received' = [tokens_received EXCEPT ![i] = @ + 1]
    /\ ppc' = [ppc EXCEPT ![i] =
                 IF game_over \/ players[i].blocked THEN "exited" ELSE "lock"]
    /\ UNCHANGED <<stateVars, master_to_view, view_to_master, master_mutex,
                   state_mutex, reader_count_mutex, reader_count, pipeVars,
                   cfgVars, masterOut, masterVars, best_dir, bytes_sent, viewVars,
                   m2v_posts>>
    /\ shm_names' = IF ppc'[i] = "exited" THEN PlayerCleanup(shm_names)
                    ELSE shm_names

\* sem_wait(state_mutex); if game_over: sem_post(state_mutex) and leave
PV_Lock(i) ==
    /\ kind[i] = "player_valid"
    /\ ppc[i] = "lock"
    /\ state_mutex > 0
    /\ IF game_over
       THEN /\ ppc' = [ppc EXCEPT ![i] = "exited"]
            /\ UNCHANGED state_mutex
       ELSE /\ ppc' = [ppc EXCEPT ![i] = "holding"]
            /\ state_mutex' = state_mutex - 1
    /\ UNCHANGED <<stateVars, master_to_view, view_to_master, master_mutex,
                   reader_count_mutex, reader_count, player_mutex, pipeVars,
                   cfgVars, masterOut, masterVars, best_dir, tokens_received, bytes_sent,
                   viewVars, m2v_posts>>
    /\ shm_names' = IF ppc'[i] = "exited" THEN PlayerCleanup(shm_names)
                    ELSE shm_names

\* under state_mutex: no valid direction -> post and continue; otherwise
\* write one of bests[] and post (a failed write ends the player)
PV_Act(i) ==
    /\ kind[i] = "player_valid"
    /\ ppc[i] = "holding"
    /\ state_mutex' = state_mutex + 1
    /\ IF PvValidDirs(i) = {}
       THEN /\ ppc' = [ppc EXCEPT ![i] = "wait_token"]
            /\ UNCHANGED <<pipe, bytes_sent>>
       ELSE IF player_pipes[i]
       THEN /\ \E d \in PvBests(i) : pipe' = [pipe EXCEPT ![i] = Append(@, d)]
            /\ bytes_sent' = [bytes_sent EXCEPT ![i] = @ + 1]
            /\ ppc' = [ppc EXCEPT ![i] = "wait_token"]
       ELSE /\ ppc' = [ppc EXCEPT ![i] = "exited"]
            /\ UNCHANGED <<pipe, bytes_sent>>
    /\ UNCHANGED <<stateVars, master_to_view, view_to_master, master_mutex,
                   reader_count_mutex, reader_count, player_mutex,
                   player_pipes, read_fds, cfgVars, masterOut, masterVars, best_dir,
                   tokens_received, viewVars, m2v_posts>>
    /\ shm_names' = IF ppc'[i] = "exited" THEN PlayerCleanup(shm_names)
                    ELSE shm_names

\* player_valid: sem_wait(state_mutex) fails with EINTR; the player posts
\* its own player_mutex and goes back to the top of the loop
PV_LockEINTR(i) ==
    /\ kind[i] = "player_valid"
    /\ ppc[i] = "lock"
    /\ tokens_received[i] <= MaxEINTR
    /\ player_mutex' = [player_mutex EXCEPT ![i] = @ + 1]
    /\ ppc' = [ppc EXCEPT ![i] = "wait_token"]
    /\ UNCHANGED <<stateVars, master_to_view, view_to_master, master_mutex,
                   state_mutex, reader_count_mutex, reader_count, pipeVars,
                   cfgVars, outVars, masterVars, best_dir, tokens_received,
                   bytes_sent, viewVars, m2v_posts>>

PlayerNext(i) ==
    \/ P_FindSlot(i) \/ P_LoopTop(i) \/ P_WaitToken(i) \/ P_Gate(i)
    \/ P_ReaderEntry(i) \/ P_FirstReader(i) \/ P_ReadAndExit(i) \/ P_Write(i)
    \/ PV_FindLock(i) \/ PV_FindScan(i) \/ PV_WaitToken(i) \/ PV_Lock(i)
    \/ PV_Act(i)

\* ------------------------------------------------------------------------
\* Player running some other executable: its standard output is the write
\* end of pipe i (dup2 before execl) and it touches nothing else
\* ------------------------------------------------------------------------
\* a write of one byte to standard output; SIGPIPE ends the process when
\* master has closed the read end
X_Write(i) ==
    /\ kind[i] = "other"
    /\ ppc[i] = "start"
    /\ bytes_sent[i] < MaxWrites
    /\ Len(pipe[i]) < MaxPipe
    /\ IF player_pipes[i]
       THEN /\ \E b \in 0 .. MaxByte : pipe' = [pipe EXCEPT ![i] = Append(@, b)]
            /\ bytes_sent' = [bytes_sent EXCEPT ![i] = @ + 1]
            /\ UNCHANGED ppc
       ELSE /\ ppc' = [ppc EXCEPT ![i] = "exited"]
            /\ UNCHANGED <<pipe, bytes_sent>>
    /\ UNCHANGED <<stateVars, syncVars, player_pipes, read_fds, cfgVars, masterOut,
                   masterVars, best_dir, tokens_received, viewVars, m2v_posts>>
    /\ shm_names' = IF ppc'[i] = "exited" THEN PlayerCleanup(shm_names)
                    ELSE shm_names

\* the process ends, which closes its copies of the write ends
X_Exit(i) ==
    /\ kind[i] = "other"
    /\ ppc[i] = "start"
    /\ ppc' = [ppc EXCEPT ![i] = "exited"]
    /\ UNCHANGED <<stateVars, syncVars, pipeVars, cfgVars, masterOut, masterVars,
                   best_dir, tokens_received, bytes_sent, viewVars, m2v_posts>>
    /\ shm_names' = IF ppc'[i] = "exited" THEN PlayerCleanup(shm_names)
                    ELSE shm_names

\* ------------------------------------------------------------------------
\* View (view.c)
\* ------------------------------------------------------------------------
\* while (!game_state->game_over); the test after the acknowledgment
\* (if (game_over) break) reads the same flag right before it
V_LoopTop ==
    /\ vpc = "loop_top"
    /\ vpc' = IF game_over THEN "exited" ELSE "wait"
    /\ UNCHANGED <<stateVars, syncVars, pipeVars, cfgVars, masterOut, masterVars,
                   playerVars, view_waits, m2v_posts>>
    /\ shm_names' = IF vpc' = "exited" THEN ViewCleanup(shm_names)
                    ELSE shm_names

\* sem_wait(master_to_view)
V_Wait ==
    /\ vpc = "wait"
    /\ master_to_view > 0
    /\ master_to_view' = master_to_view - 1
    /\ view_waits' = view_waits + 1
    /\ vpc' = "draw"
    /\ UNCHANGED <<stateVars, view_to_master, master_mutex, state_mutex,
                   reader_count_mutex, reader_count, player_mutex, pipeVars,
                   cfgVars, outVars, masterVars, playerVars, m2v_posts>>

\* the drawing, then sem_post(view_to_master)
V_DrawAck ==
    /\ vpc = "draw"
    /\ view_to_master' = view_to_master + 1
    /\ vpc' = "loop_top"
    /\ UNCHANGED <<stateVars, master_to_view, master_mutex, state_mutex,
                   reader_count_mutex, reader_count, player_mutex, pipeVars,
                   cfgVars, outVars, masterVars, playerVars, view_waits, m2v_posts>>

ViewNext == V_LoopTop \/ V_Wait \/ V_DrawAck

\* ------------------------------------------------------------------------
\* Specifications
\* ------------------------------------------------------------------------
GameNext ==
    \/ M_ForkView \/ M_InitNotify \/ M_InitWait \/ M_CreatePipes
    \/ M_Spawn \/ M_RecordPid \/ M_LoopInit \/ M_Select \/ M_Skip
    \/ M_ReadEOF \/ M_ReadByte \/ M_WaitState \/ M_ProcessMove
    \/ M_Notify \/ M_NotifyWait \/ M_Sleep \/ M_Check
    \/ M_FinalNotify \/ M_FinalWait \/ M_Reap
    \/ Tick
    \/ \E i \in Players : P_FindSlot(i)
    \/ \E i \in Players : P_LoopTop(i)
    \/ \E i \in Players : P_WaitToken(i)
    \/ \E i \in Players : P_Gate(i)
    \/ \E i \in Players : P_ReaderEntry(i)
    \/ \E i \in Players : P_FirstReader(i)
    \/ \E i \in Players : P_ReadAndExit(i)
    \/ \E i \in Players : P_Write(i)
    \/ \E i \in Players : PV_FindLock(i)
    \/ \E i \in Players : PV_FindScan(i)
    \/ \E i \in Players : PV_WaitToken(i)
    \/ \E i \in Players : PV_Lock(i)
    \/ \E i \in Players : PV_Act(i)
    \/ V_LoopTop \/ V_Wait \/ V_DrawAck

Next == GameNext \/ M_ReapView

Spec == Init /\ [][Next]_vars

\* the same game with cleanup() taken statement by statement and a signal
\* delivered to master at any point
CleanupNext ==
    \/ GameNext
    \/ M_Ranking \/ M_CleanupState \/ M_CleanupSync \/ M_CleanupStateFd
    \/ M_CleanupSyncFd \/ M_CleanupPipes
    \/ M_Signal \/ M_SignalFault

CleanupSpec == Init /\ [][CleanupNext]_vars

AnyNext ==
    \/ Next
    \/ \E i \in Players : X_Write(i)
    \/ \E i \in Players : X_Exit(i)

\* the game with any executable given as a player
AnySpec == AnyInit /\ [][AnyNext]_vars

\* every process is scheduled again and again, and time goes on
FairSpec ==
    /\ Spec
    /\ WF_vars(MasterNext)
    /\ \A i \in 0 .. (PlayerCount - 1) :
          WF_vars(i < player_count /\ PlayerNext(i))
    /\ WF_vars(ViewNext)
    /\ WF_vars(Tick)

\* a game of three players on the smallest board
ManyInit == InitOf(Kinds, {1}, {1}, {ManyPlayers})

ManySpec == ManyInit /\ [][Next]_vars

\* the delays given with -d: around 0, the default, one second and the
\* largest delay whose product fits an int
DelayInputs ==
    {d \in 0 .. MaxDelayMs :
        \E c \in {0, DefaultDelayMs, 1000, INT_MAX \div NanosPerMs} :
            d - c \in (0 - DelaySlack) .. DelaySlack}

\* a game of one player on the smallest board, for every delay
PaceInit == InitDelay(Kinds, {1}, {1}, {1}, DelayInputs)

PaceSpec == PaceInit /\ [][Next]_vars

\* the program in an environment that may signal master and fail its
\* fork and execl calls
PlayerFaultNext == \E i \in Players : PV_LockEINTR(i)

FaultSpec == Init /\ [][Next \/ FaultNext \/ PlayerFaultNext]_vars

TypeOK ==
    /\ width \in 1 .. Width
    /\ height \in 1 .. Height
    /\ player_count \in 1 .. PlayerCount
    /\ board \in [Cells -> (1 .. MaxReward) \cup {-(i + 1) : i \in Players}]
    /\ game_over \in BOOLEAN
    /\ state_mutex \in 0 .. 1
    /\ reader_count_mutex \in 0 .. 1
    /\ reader_count \in 0 .. PlayerCount
    /\ elapsed \in 0 .. TimeoutSec

\* ------------------------------------------------------------------------
\* Vocabulary of the properties
\* ------------------------------------------------------------------------
\* offsets of the eight direction codes, as the specification lists them
DX == <<0, 1, 1, 1, 0, -1, -1, -1>>
DY == <<-1, -1, 0, 1, 1, 1, 0, -1>>

LegalMove(i, d) ==
    LET tx == players[i].x + DX[d + 1]
        ty == players[i].y + DY[d + 1]
    IN  /\ tx \in 0 .. (width - 1)
        /\ ty \in 0 .. (height - 1)
        /\ board[ty * width + tx] > 0

Processed(i) == players[i].valid_moves + players[i].invalid_moves

RECURSIVE SumProcessed(_)
SumProcessed(n) == IF n = 0 THEN 0 ELSE Processed(n - 1) + SumProcessed(n - 1)

\* bytes master has read and finished processing so far
K == SumProcessed(player_count)

WriterInside == mpc = "writer"

ReaderInside(i) ==
    \/ kind[i] = "player" /\ ppc[i] = "reading"
    \/ kind[i] = "player_valid" /\ ppc[i] \in {"find_scan", "holding"}

\* ready tokens made available to player i so far
TokensAvailable(i) == player_mutex[i] + tokens_received[i]

ViewWaitPcs == {"init_wait", "notify_wait", "final_wait"}

\* the step that ends an iteration of the event loop
EndOfIteration == mpc = "process" /\ mi = player_count /\ mpc' # mpc

\* the step that finishes the processing of the byte in move
ByteProcessed == mpc = "writer" /\ mpc' = "notify"

\* the board index of the cell player i would reach with direction d
TargetCell(i, d) ==
    (players[i].y + DY[d + 1]) * width + (players[i].x + DX[d + 1])

\* the byte in move is one master has to accept
MoveIsLegal == move <= 7 /\ LegalMove(mi, move)

\* the rewards the board held before the players were placed
OriginalBoard == initialize_board(seed)

StartCell(i) == StartY(i) * width + StartX(i)

\* the cells player i owns now, its starting cell left out
CapturedCells(i) == {c \in Cells : board[c] = -(i + 1)} \ {StartCell(i)}

RECURSIVE SumRewards(_)
SumRewards(S) ==
    IF S = {} THEN 0
    ELSE LET c == CHOOSE e \in S : TRUE
         IN  OriginalBoard[c] + SumRewards(S \ {c})

HeadCell(i) == players[i].y * width + players[i].x

\* the last player place_players puts on the starting cell of player i
LastAtStart(i) == SetMax({j \in Players : StartCell(j) = StartCell(i)})

\* direction d keeps player i inside the grid
TargetInGrid(i, d) ==
    /\ players[i].x + DX[d + 1] \in 0 .. (width - 1)
    /\ players[i].y + DY[d + 1] \in 0 .. (height - 1)

\* master has read a byte of player i and has not finished processing it
InProcessing(i) == mi = i /\ mpc \in {"wait_state", "writer"}

\* reads on pipe i that returned one byte which master has finished
\* processing: the bytes written, less those still in the pipe, less the
\* one being processed
BytesProcessed(i) ==
    bytes_sent[i] - Len(pipe[i]) - (IF InProcessing(i) THEN 1 ELSE 0)

\* the step in which master's read on the pipe of player mi returns 0
EOFRead ==
    /\ mpc = "process"
    /\ mi < player_count
    /\ Selected(mi)
    /\ mpc' = mpc
    /\ mi' = mi + 1

\* player i is strictly better than player j: higher score, then fewer
\* valid moves, then fewer invalid moves
RanksAbove(i, j) ==
    \/ players[i].score > players[j].score
    \/ /\ players[i].score = players[j].score
       /\ players[i].valid_moves < players[j].valid_moves
    \/ /\ players[i].score = players[j].score
       /\ players[i].valid_moves = players[j].valid_moves
       /\ players[i].invalid_moves < players[j].invalid_moves

\* the players no other player is strictly better than
BestPlayers == {i \in Players : \A j \in Players : ~RanksAbove(j, i)}

\* the winner the ranking rules name, -1 for a tie
ExpectedWinner ==
    IF Cardinality(BestPlayers) = 1 THEN CHOOSE i \in BestPlayers : TRUE
    ELSE -1

NoLegalMoveLeft ==
    \A i \in Players : ~players[i].blocked => \A d \in Directions : ~LegalMove(i, d)

\* ------------------------------------------------------------------------
\* Properties
\* ------------------------------------------------------------------------
\* C1: master is never inside its writer section (between sem_wait and
\* sem_post of state_mutex) while a player is inside its read section, and
\* conversely
C1_MutualExclusion == ~(WriterInside /\ \E i \in Players : ReaderInside(i))

\* master is kept waiting for state_mutex while a player is inside
C1_Witness ==
    /\ mpc = "wait_state"
    /\ state_mutex = 0
    /\ \E i \in Players : ReaderInside(i)

\* C2: at the top of the event loop every player that is not blocked has
\* been given valid_moves + invalid_moves + 1 ready tokens, i.e. master
\* posts player_mutex[i] once per processed byte
C2_TokenAccounting ==
    \A i \in Players :
        (mpc = "select" /\ ~players[i].blocked)
            => TokensAvailable(i) = Processed(i) + 1

\* C3: for a player.c player, tokens consumed minus bytes written is 0 or
\* 1, and its pipe never holds more than one unread byte
C3_AtMostOneOutstanding ==
    \A i \in Players :
        kind[i] = "player" =>
            /\ tokens_received[i] - bytes_sent[i] \in {0, 1}
            /\ Len(pipe[i]) <= 1

C3_Witness ==
    \E i \in Players :
        /\ kind[i] = "player"
        /\ tokens_received[i] = 1
        /\ bytes_sent[i] = 1
        /\ Len(pipe[i]) = 1

\* C4: once master has processed a byte of a non-blocked player and the
\* game is not over, that player eventually consumes a new ready token
C4_ForwardProgress ==
    \A i \in 0 .. (PlayerCount - 1) :
        (/\ i < player_count
         /\ Processed(i) >= 1
         /\ ~game_over
         /\ ~players[i].blocked)
            ~> (i < player_count /\ tokens_received[i] > Processed(i))

\* C5: once game_over is set, master eventually gets through waitpid on
\* every player and on the view and reaches cleanup
C5_ShutdownLiveness == game_over ~> (mpc = "done")

\* C6: every sem_wait(view_to_master) of master eventually returns
C6_ViewHandshakeLiveness == (mpc \in ViewWaitPcs) ~> (mpc \notin ViewWaitPcs)

\* C7: in a completed run with a view, master has posted master_to_view
\* K + 2 times and the view has completed K + 2 waits on it
C7_ViewNotificationCount ==
    (mpc = "done" /\ view_path) =>
        (m2v_posts = K + 2 /\ view_waits = K + 2)

C7_Witness == mpc = "done" /\ view_path /\ K >= 1 /\ m2v_posts = K + 2

\* C8: an iteration that ends while no non-blocked player has a legal
\* move sets game_over
C8_TerminationByBlockage ==
    [][(EndOfIteration /\ NoLegalMoveLeft) => game_over']_vars

C10_MoveValidity ==
    /\ [](\A i \in Players : \A d \in Directions :
              is_valid_move(i, d) <=> LegalMove(i, d))
    /\ [][(ByteProcessed /\ move <= 7) =>
              ((players'[mi].valid_moves = players[mi].valid_moves + 1)
                  <=> LegalMove(mi, move))]_vars

\* one byte was accepted and one was rejected
C10_Witness ==
    /\ \E i \in Players : players[i].valid_moves >= 1
    /\ \E j \in Players : players[j].invalid_moves >= 1

\* C11: when master accepts a move of player i to the cell t holding v,
\* afterwards score[i] has grown by v, board[t] = -(i+1), the head of i is
\* t, valid_moves[i] has grown by 1, and every other cell, every other
\* player's record, invalid_moves[i], the blocked flags and game_over are
\* as before
C11_ApplyMove ==
    [][(ByteProcessed /\ MoveIsLegal) =>
          LET t == TargetCell(mi, move)
              v == board[t]
          IN  /\ players'[mi].score = players[mi].score + v
              /\ board'[t] = -(mi + 1)
              /\ players'[mi].y * width + players'[mi].x = t
              /\ players'[mi].x = players[mi].x + DX[move + 1]
              /\ players'[mi].valid_moves = players[mi].valid_moves + 1
              /\ \A c \in Cells \ {t} : board'[c] = board[c]
              /\ \A j \in Players \ {mi} : players'[j] = players[j]
              /\ players'[mi].invalid_moves = players[mi].invalid_moves
              /\ players'[mi].pid = players[mi].pid
              /\ \A j \in Players : players'[j].blocked = players[j].blocked
              /\ game_over' = game_over]_vars

\* a player has had two moves accepted and has left a captured cell that
\* is not its starting cell
C11_Witness ==
    \E i \in Players :
        /\ players[i].valid_moves = 2
        /\ players[i].score >= 2
        /\ Cardinality({c \in Cells : board[c] = -(i + 1)}) = 3

\* C12: processing a byte that is greater than 7, or in 0..7 but not a
\* legal move, adds exactly 1 to invalid_moves[i] and leaves the board,
\* every head, score, valid_moves counter and blocked flag and game_over
\* as they were
C12_RejectedByteFrame ==
    [][(ByteProcessed /\ ~MoveIsLegal) =>
          /\ players'[mi].invalid_moves = players[mi].invalid_moves + 1
          /\ board' = board
          /\ \A j \in Players :
                /\ players'[j].x = players[j].x
                /\ players'[j].y = players[j].y
                /\ players'[j].score = players[j].score
                /\ players'[j].valid_moves = players[j].valid_moves
                /\ players'[j].blocked = players[j].blocked
          /\ \A j \in Players \ {mi} : players'[j] = players[j]
          /\ game_over' = game_over]_vars

\* a byte greater than 7 has just been rejected, after a byte in 0..7 of
\* the other player was rejected
C12_Witness ==
    /\ mpc = "notify"
    /\ move > 7
    /\ players[mi].invalid_moves = 1
    /\ \E j \in Players \ {mi} :
          kind[j] # "other" /\ players[j].invalid_moves = 1

\* C13: in every reachable state the score of every player is the sum of
\* the original rewards of the cells now marked -(i+1), its starting cell
\* left out
C13_ScoreInvariant ==
    \A i \in Players : players[i].score = SumRewards(CapturedCells(i))

\* a player has captured two cells while another player is in the game
C13_Witness ==
    \E i \in Players :
        /\ player_count > 1
        /\ Cardinality(CapturedCells(i)) = 2
        /\ players[i].score = SumRewards(CapturedCells(i))
        /\ players[i].score >= 2

\* C14 as stated: for every board size and player count the cell at the
\* head of player i holds -(i+1)
C14_HeadCell == \A i \in Players : board[HeadCell(i)] = -(i + 1)

\* C14, amended: the cell at the head of player i holds -(i+1) once i has
\* had a move accepted; before that it holds the marker of the last
\* player placed on the starting cell of i, which is i itself whenever
\* the starting cells are distinct
C14_HeadCellAmended ==
    \A i \in Players :
        board[HeadCell(i)] =
            IF players[i].valid_moves = 0 THEN -(LastAtStart(i) + 1)
            ELSE -(i + 1)

\* two players were placed on the same cell and the later one has moved
\* away from it
C14_Witness ==
    \E i \in Players : \E j \in Players :
        /\ i < j
        /\ StartCell(i) = StartCell(j)
        /\ players[i].valid_moves = 0
        /\ players[j].valid_moves = 1
        /\ board[HeadCell(j)] = -(j + 1)
        /\ board[HeadCell(i)] = -(j + 1)

\* C15: in every reachable state every board cell is in 1..9 or is
\* -(i+1) for a player index i < player_count; no cell is 0 or below
\* -player_count
C15_CellDomain ==
    \A c \in Cells :
        /\ \/ board[c] \in 1 .. 9
           \/ \E i \in Players : board[c] = -(i + 1)
        /\ board[c] # 0
        /\ board[c] >= -player_count

\* the last player has captured a cell by a move and a reward is left
C15_Witness ==
    /\ \E c \in Cells : board[c] \in 1 .. 9
    /\ \E c \in Cells \ {StartCell(player_count - 1)} :
          board[c] = -player_count

\* C16: a board cell whose value is <= 0 never changes again, so it never
\* becomes positive again and never changes owner
C16_CapturePermanent ==
    [][\A c \in Cells : board[c] <= 0 => board'[c] = board[c]]_vars

\* a byte that aimed at a cell captured by a move has just been rejected
\* and the cell still has its owner
C16_Witness ==
    /\ mpc = "notify"
    /\ move <= 7
    /\ TargetInGrid(mi, move)
    /\ players[mi].invalid_moves >= 1
    /\ \E j \in Players :
          /\ TargetCell(mi, move) \in CapturedCells(j)
          /\ board[TargetCell(mi, move)] = -(j + 1)

\* C17: in every reachable state valid_moves[i] + invalid_moves[i] is the
\* number of reads on the pipe of player i that returned one byte and whose
\* byte master has finished processing; a read that returns EOF is not
\* counted
C17_ByteAccounting ==
    \A i \in Players : Processed(i) = BytesProcessed(i)

\* two bytes of a player were processed, one accepted and one rejected,
\* and then the read on its pipe returned EOF
C17_Witness ==
    \E i \in Players :
        /\ players[i].blocked
        /\ players[i].valid_moves = 1
        /\ players[i].invalid_moves = 1
        /\ bytes_sent[i] = 2

\* C18: when master's read on the pipe of player i returns 0 bytes, master
\* sets players[i].blocked, closes the read end and takes it out of the
\* readiness set, posts no ready token, and changes nothing else; an
\* iteration that ends with a departed player, a player that is not
\* blocked and no timeout goes on with the game
C18_PeerDeparture ==
    [][/\ EOFRead =>
            /\ players' = [players EXCEPT ![mi].blocked = TRUE]
            /\ ~player_pipes'[mi]
            /\ mi \notin read_fds'
            /\ \A j \in Players \ {mi} :
                  /\ player_pipes'[j] = player_pipes[j]
                  /\ (j \in read_fds') = (j \in read_fds)
            /\ player_mutex' = player_mutex
            /\ board' = board
            /\ pipe' = pipe
            /\ game_over' = game_over
       /\ (/\ EndOfIteration
           /\ \E i \in Players : players[i].blocked
           /\ \E j \in Players : ~players[j].blocked
           /\ elapsed < TimeoutSec)
              => (~game_over' /\ mpc' = "select")]_vars

\* master has seen EOF on the pipe of one player and is back at select()
\* with another player in the game
C18_Witness ==
    /\ mpc = "select"
    /\ ~game_over
    /\ \E i \in Players : \E j \in Players :
          /\ players[i].blocked
          /\ ~player_pipes[i]
          /\ i \notin read_fds
          /\ ~players[j].blocked
          /\ player_pipes[j]

\* C19: an iteration of the event loop that ends with every player
\* blocked sets game_over and leaves the loop; one that ends with a player
\* not blocked and the timeout not elapsed does not set game_over
C19_AllBlockedTermination ==
    [][/\ (EndOfIteration /\ \A i \in Players : players[i].blocked)
              => (game_over' /\ mpc' = "final_notify")
       /\ (/\ EndOfIteration
           /\ \E i \in Players : ~players[i].blocked
           /\ elapsed < TimeoutSec)
              => (game_over' = game_over /\ mpc' = "select")]_vars

\* the game ended because every player was blocked, not by the timeout,
\* after an iteration that ended with one player blocked only
C19_Witness ==
    /\ player_count > 1
    /\ mpc = "final_notify"
    /\ game_over
    /\ elapsed < TimeoutSec
    /\ \A i \in Players : players[i].blocked /\ ~player_pipes[i]
    /\ \E i \in Players : Processed(i) >= 1

\* C20: once players[i].blocked is true it is true in every later state
C20_BlockedMonotone ==
    [][\A i \in Players : players[i].blocked => players'[i].blocked]_vars

\* a run has ended with a player that was blocked while the other one
\* went on playing
C20_Witness ==
    /\ mpc = "done"
    /\ \E i \in Players : \E j \in Players :
          /\ players[i].blocked
          /\ Processed(i) = 0
          /\ ~players[j].blocked
          /\ players[j].valid_moves >= 1

\* C21: master declares as winner the player that is strictly best under
\* higher score, then fewer valid_moves, then fewer invalid_moves, and
\* reports a tie (no winner) when two or more best players are equal on
\* the three keys
C21_Ranking == (mpc = "done") => (winner = ExpectedWinner)

\* the table of starting heads (x, y), in player order
StartingTable ==
    << <<0, 0>>,
       <<width - 1, 0>>,
       <<0, height - 1>>,
       <<width - 1, height - 1>>,
       <<width \div 2, height \div 2>>,
       <<width \div 2, 0>>,
       <<width \div 2, height - 1>>,
       <<0, height \div 2>>,
       <<width - 1, height \div 2>> >>

HeadsAtTable ==
    \A i \in Players :
        /\ players[i].x = StartingTable[i + 1][1]
        /\ players[i].y = StartingTable[i + 1][2]

HeadsDistinct ==
    \A i, j \in Players :
        (i # j) => (<<players[i].x, players[i].y>> # <<players[j].x, players[j].y>>)

\* a cell shared by several heads carries the marker of the last of them
LaterMarkerWins ==
    \A i \in Players :
        board[players[i].y * width + players[i].x] =
            -(SetMax({j \in Players :
                        /\ players[j].x = players[i].x
                        /\ players[j].y = players[i].y}) + 1)

\* C22: after place_players, for every W, H and player_count, player i's
\* head is the i-th entry of the table of starting positions, with nine
\* players the nine heads are pairwise distinct, and a cell where entries
\* coincide carries the marker of the later player
C22_StartingPositions ==
    (mpc = "fork_view") =>
        /\ HeadsAtTable
        /\ (player_count = MAX_PLAYERS) => HeadsDistinct
        /\ LaterMarkerWins

\* C22 amended: the nine heads are pairwise distinct exactly when the grid
\* is at least 3 wide and 3 high
C22_StartingPositionsAmended ==
    (mpc = "fork_view") =>
        /\ HeadsAtTable
        /\ (player_count = MAX_PLAYERS) =>
               (HeadsDistinct <=> (width >= 3 /\ height >= 3))
        /\ LaterMarkerWins

C22_Witness ==
    /\ mpc = "fork_view"
    /\ player_count = MAX_PLAYERS
    /\ width = 4
    /\ height = 3
    /\ HeadsDistinct
    /\ board[1 * width + 2] = -5

\* C23: every player implementation that consumed a ready token with the
\* game running and itself not blocked has written exactly one byte by the
\* time it waits on its ready semaphore again, also when it found no legal
\* move
C23_OneBytePerToken ==
    \A i \in Players :
        (ppc[i] = "wait_token") => (bytes_sent[i] = tokens_received[i])

\* cleanup() has run: no shared name left, no pipe end of master open
CleanedUp ==
    /\ shm_names = {}
    /\ \A i \in Players : ~player_pipes[i]

InGameLoop ==
    mpc \in {"loop_init", "select", "process", "wait_state", "writer",
             "notify", "notify_wait", "sleep", "final_notify", "final_wait",
             "reap", "done"}

\* C25: when fork fails, or execl of the view or of a player fails during
\* startup, master unlinks both regions, closes its pipes and exits
\* non-zero; it never goes on into the game loop and never waits on the
\* handshake of a child whose execl failed
C25_StartupFailure ==
    /\ (mpc = "fork_exit") => (CleanedUp /\ exit_status \notin {-1, EXIT_SUCCESS})
    /\ view_exec_failed => (mpc # "init_wait")
    /\ (view_exec_failed \/ exec_failed # {}) => ~InGameLoop

\* master is blocked in sem_wait(state_mutex) while a reader is inside
WriterBlocked ==
    /\ mpc = "wait_state"
    /\ state_mutex = 0
    /\ \E i \in Players : ReaderInside(i)

\* C26: with at least three players, once master is blocked in
\* sem_wait(state_mutex) with a reader inside, no further player completes
\* reader entry before master has entered and left the writer region
C26_WriterPreference ==
    [][WriterBlocked =>
         \A i \in 0 .. (ManyPlayers - 1) :
             (i < player_count /\ ReaderInside(i)') => ReaderInside(i)]_vars

\* fork has returned in master for at least one child
FirstChildSpawned ==
    \/ vpc # "unborn"
    \/ \E i \in Players : ppc[i] # "unborn"

\* C27: once the first child is spawned, every write to the game state
\* (board, player records with pid and blocked, game_over) is made by
\* master while it holds state_mutex; no player or view writes it
C27_WritesUnderLock ==
    [][(FirstChildSpawned /\ stateVars' # stateVars) =>
          (mpc = "writer" /\ state_mutex = 0)]_vars

\* the processes between the end of reader entry and the start of reader exit
ReadersIn == {i \in Players : kind[i] = "player" /\ ppc[i] = "reading"}

\* the processes that took state_mutex themselves
DirectHolders ==
    {i \in Players : kind[i] = "player_valid" /\ ppc[i] \in {"find_scan", "holding"}}

\* state_mutex is taken, and neither by master nor by a direct holder
HeldForReaders ==
    /\ state_mutex = 0
    /\ ~WriterInside
    /\ DirectHolders = {}

\* C28: whenever reader_count_mutex is free, reader_count is the number of
\* processes that completed reader entry and have not started reader exit,
\* and state_mutex is held for the readers exactly when reader_count > 0;
\* reader_count is never below 0
C28_ReaderCountExact ==
    /\ reader_count >= 0
    /\ (reader_count_mutex = 1) =>
           /\ reader_count = Cardinality(ReadersIn)
           /\ HeldForReaders <=> (reader_count > 0)

\* two readers inside while master waits for the lock with a byte read
C28_Witness ==
    /\ reader_count_mutex = 1
    /\ reader_count = 2
    /\ Cardinality(ReadersIn) = 2
    /\ mpc = "wait_state"

\* master has not yet recorded the pid of the last player
Spawning ==
    mpc \in {"fork_view", "init_notify", "init_wait", "pipes", "spawn",
             "record_pid"}

\* C29: when master has initialised the semaphores, master_to_view = 0,
\* view_to_master = 0, master_mutex = 1, state_mutex = 1,
\* reader_count_mutex = 1, reader_count = 0 and the ready semaphore of
\* every player is 0; the first token comes from master's post after all
\* players are spawned and recorded, so no player writes a byte before
C29_InitialSemaphores ==
    /\ (mpc = "fork_view") =>
           /\ master_to_view = 0
           /\ view_to_master = 0
           /\ master_mutex = 1
           /\ state_mutex = 1
           /\ reader_count_mutex = 1
           /\ reader_count = 0
           /\ \A i \in Players : player_mutex[i] = 0
    /\ Spawning => \A i \in Players : tokens_received[i] = 0 /\ bytes_sent[i] = 0

\* the view is between its sem_wait(master_to_view) and its
\* sem_post(view_to_master), where it reads the board and the players
ViewDrawing == vpc = "draw"

\* C30: the view reads the board and the player records only between its
\* sem_wait(master_to_view) and its sem_post(view_to_master); during that
\* interval master is outside the writer region, waiting for the
\* acknowledgment, and no step changes the board or the player records;
\* the view never draws more often than master posted master_to_view
C30_ViewSnapshot ==
    /\ [](ViewDrawing => (mpc \in ViewWaitPcs /\ ~WriterInside))
    /\ [][ViewDrawing => (board' = board /\ players' = players)]_vars
    /\ [](view_waits <= m2v_posts)

\* the view draws the board after a move of a player was applied
C30_Witness ==
    /\ ViewDrawing
    /\ mpc = "notify_wait"
    /\ \E i \in Players : players[i].valid_moves > 0

\* C31: on every notification the view does the full reader entry before
\* it reads the game state and the full reader exit before it posts
\* view_to_master, so while it draws it is counted in reader_count and
\* state_mutex is taken for the readers
C31_ViewReaderProtocol ==
    ViewDrawing => (reader_count > 0 /\ state_mutex = 0)

\* C32: when master's read on the pipe of player i returns -1, master
\* closes that pipe, removes it from the readiness set, marks player i
\* blocked and issues no token
C32_PipeReadError ==
    [][(mpc = "read_error" /\ mpc' = "process") =>
          /\ ~player_pipes'[mi]
          /\ mi \notin read_fds'
          /\ players'[mi].blocked
          /\ player_mutex' = player_mutex]_vars

\* C33: when master's select is interrupted (-1 with EINTR), master
\* retries the wait, the game state and game_over are unchanged and master
\* stays in the event loop
C33_SelectInterrupted ==
    [][(mpc = "select_eintr" /\ mpc' \notin {"select_eintr", "sig_exit"}) =>
          (mpc' = "select" /\ stateVars' = stateVars)]_vars

\* C34: the ready semaphore of player i is incremented only by master and
\* decremented only by player i; no player posts its own or another
\* player's ready semaphore, also not after an interrupted semaphore wait
C34_SingleRoleReady ==
    [][\A i \in 0 .. (PlayerCount - 1) :
          (i < player_count) =>
             /\ (player_mutex'[i] > player_mutex[i]) =>
                    (masterVars' # masterVars /\ ppc' = ppc)
             /\ (player_mutex'[i] < player_mutex[i]) =>
                    (ppc'[i] # ppc[i])]_vars

\* master has not yet run its cleanup
MasterRunning == mpc \notin {"done", "sig_exit", "fork_exit"}

C36_Pacing ==
    (ts.called /\ delay_ms >= 0) =>
        /\ delay_ms <= INT_MAX \div NanosPerMs
        /\ ts.tv_nsec[1] = 0
        /\ ts.ret = 0

AllSpawned == MasterRunning /\ ~Spawning

\* C38: once all players are spawned, players[i].blocked is true exactly
\* when master has closed the read end of player i's pipe and removed it
\* from the select set; master never selects on or reads from the pipe of
\* a blocked player
C38_BlockedMatchesPipe ==
    /\ [](AllSpawned =>
             \A i \in 0 .. (PlayerCount - 1) :
                (i < player_count) =>
                   (players[i].blocked <=> (~player_pipes[i] /\ i \notin read_fds)))
    /\ [][(mpc = "select" /\ mpc' = "process") =>
             \A i \in 0 .. (PlayerCount - 1) :
                (i \in tmp_fds') => ~players[i].blocked]_vars
    /\ [][(mpc = "process" /\ mpc' \in {"wait_state", "read_error"}) =>
             ~players[mi].blocked]_vars

\* one player is blocked with its pipe closed while another one is still
\* selected
C38_Witness ==
    /\ mpc = "process"
    /\ \E i, j \in Players :
          /\ players[i].blocked
          /\ ~player_pipes[i]
          /\ i \notin read_fds
          /\ ~players[j].blocked
          /\ j \in tmp_fds
          /\ j \in read_fds

\* the sum of the strictly positive cells of board b
RECURSIVE PositiveOver(_, _)
PositiveOver(b, S) ==
    IF S = {} THEN 0
    ELSE LET c == CHOOSE e \in S : TRUE
         IN  (IF b[c] > 0 THEN b[c] ELSE 0) + PositiveOver(b, S \ {c})

PositiveSum(b) == PositiveOver(b, Cells)

\* the board right after place_players
PlacedBoard == place_players(OriginalBoard)

RECURSIVE ScoreOver(_)
ScoreOver(S) ==
    IF S = {} THEN 0
    ELSE LET i == CHOOSE e \in S : TRUE
         IN  players[i].score + ScoreOver(S \ {i})

RECURSIVE ValidOver(_)
ValidOver(S) ==
    IF S = {} THEN 0
    ELSE LET i == CHOOSE e \in S : TRUE
         IN  players[i].valid_moves + ValidOver(S \ {i})

StartCells == {StartCell(i) : i \in Players}

\* C39: after placement, the players' scores plus the strictly positive
\* cells of the board add up to the strictly positive cells the board had
\* right after placement, and the number of cells <= 0 is the number of
\* distinct starting cells plus the total of valid_moves
C39_RewardConservation ==
    /\ ScoreOver(Players) + PositiveSum(board) = PositiveSum(PlacedBoard)
    /\ Cardinality({c \in Cells : board[c] <= 0})
          = Cardinality(StartCells) + ValidOver(Players)

\* two players have each captured a cell and a free cell is left
C39_Witness ==
    /\ \E i, j \in Players :
          /\ i # j
          /\ players[i].valid_moves > 0 /\ players[i].score > 0
          /\ players[j].valid_moves > 0 /\ players[j].score > 0
    /\ ScoreOver(Players) > 0
    /\ PositiveSum(board) < PositiveSum(PlacedBoard)

\* a signal has been delivered to master
SignalDelivered == mpc \in {"sig_exit", "sig_fault"}

AtMostOnce(calls) == \A k \in DOMAIN calls : calls[k] <= 1

\* C40: for a SIGINT/SIGTERM delivered at any point of master's execution,
\* the normal end-of-game cleanup() included, each region is unmapped at
\* most once, each descriptor closed at most once, each name unlinked at
\* most once, and game_state->width and height are not read after the
\* state region was unmapped
C40_CleanupUnderSignals ==
    SignalDelivered =>
        /\ AtMostOnce(released.munmap)
        /\ AtMostOnce(released.close)
        /\ AtMostOnce(released.shm_unlink)
        /\ ~released.stale

====
